---- MODULE Spec2Model ----
(***************************************************************************)
(* A model of fedora-rs' OpenID session builder: the cookie cache          *)
(* (src/src/openid/cookie_cache.rs) and OpenIDSessionBuilder::build        *)
(* (src/src/openid/mod.rs).                                                *)
(*                                                                         *)
(* build() is one sequential function.  It is cut into one action per      *)
(* network exchange: StartBuild runs the code up to the first GET,         *)
(* WalkGet is one iteration of the redirect loop, PostAuth is the          *)
(* credentials POST with everything up to the second POST, PostReturn is   *)
(* the return_to POST with everything up to the return.  The HTTP server,  *)
(* the file system and the clock are the environment: their answers are    *)
(* drawn from small sets.                                                  *)
(*                                                                         *)
(* Spec is the model of build().  JarSpec models the CachingJar of         *)
(* src/src/openid/cookies.rs under concurrent exchanges (JarLiveSpec adds  *)
(* the scheduler's fairness), ClientSpec the OpenIDClient of               *)
(* src/src/lib.rs.  Each specification moves its own variables and leaves  *)
(* the others at rest.                                                     *)
(*                                                                         *)
(* Option<T> is modelled as a set with at most one element.                *)
(* reqwest's ClientBuilder::build() is taken to succeed (it fails only     *)
(* when the TLS backend cannot be initialised).                            *)
(***************************************************************************)
EXTENDS Integers, Sequences, FiniteSets, TLC

VARIABLES
    login_url,      \* OpenIDSessionBuilder.login_url of the running build
    cache_cookies,  \* OpenIDSessionBuilder.cache_cookies
    pc,             \* position of build(): idle, get, post_auth, post_return, done
    url,            \* `url` of the redirect loop
    state,          \* `state`: the query / form accumulator (HashMap)
    cookie_cache,   \* `cookie_cache` of the live login
    openid_auth,    \* Option<OpenIDResponse> parsed from the credentials POST
    return_url,     \* Option<Url>: the parsed openid.return_to
    result,         \* what build() returned
    requests,       \* the HTTP requests sent by the running build, in order
    response,       \* the answer to the last of them: status, Location, body
    disk,           \* the cache file $XDG_CACHE_HOME/fedora-rs.json
    disk0,          \* the cache file as it was when the running build started
    saves,          \* number of CookieCache::write_cached calls of this build
    disk_saved,     \* the cache file holds what a write_cached of a build wrote
    stdout,         \* the lines the running process has printed (println!)
    received,       \* <<name, value>> of the cookies set by answers of this build
    now,            \* Utc::now()
    \* cookies.rs: one CachingJar shared by the requests in flight
    jar_disk,       \* the jar's file ~/.fedora/fedora-rs-cookie-jar.json
    jar_loaded,     \* Option: what CachingJar::read_from_disk returned
    store,          \* CachingJar.store: the cookie store behind the RwLock
    lock,           \* the RwLock: its writer (Option) and its readers
    jar_pc,         \* position of each exchange that uses the jar
    jar_dest,       \* the host each exchange talks to
    jar_todo,       \* cookies set_cookies has still to put into the store
    jar_seen,       \* Option<Option<HeaderValue>>: what cookies() returned
    jar_order,      \* the exchanges whose set_cookies has returned, in order
    \* lib.rs: OpenIDClient
    authenticated,  \* OpenIDClient.authenticated
    accepted        \* an authentication POST was answered with success = true

jar_vars == <<jar_disk, jar_loaded, store, lock, jar_pc, jar_dest, jar_todo,
              jar_seen, jar_order>>

client_vars == <<authenticated, accepted>>

vars == <<login_url, cache_cookies, pc, url, state, cookie_cache, openid_auth,
          return_url, result, requests, response, disk,
          disk0, saves, disk_saved, stdout, received, now, jar_vars, client_vars>>

----------------------------------------------------------------------------
(* Bounds of the model *)

\* redirects a server answers in one walk (the code has no bound)
MaxHops == 2
\* the clock runs from 0 to MaxTime
MaxTime == 1

----------------------------------------------------------------------------
(* Value universes *)

None == {}
Some(x) == {x}
Unwrap(o) == CHOOSE x \in o : TRUE

FEDORA_OPENID_API == "https://id.fedoraproject.org/api/v1/"
Username == "fedorauser"
Password == "password12"

\* query strings of the URLs: no pair, one pair, a key twice, two keys
Queries ==
    { <<>>,
      << <<"foo", "1">>, <<"foo", "2">> >>,
      << <<"openid.mode", "id_res">>, <<"foo", "2">> >>,
      << <<"username", "mallory">> >> }

\* the URLs a redirect leads to
Urls == [ base : { "https://id/openid" }, query : Queries ]

\* the login URLs a caller builds with
LoginX == [base |-> "https://bodhi/login", query |-> <<>>]
LoginY == [base |-> "https://koji/login", query |-> << <<"foo", "1">> >>]
LoginUrls == { LoginX, LoginY }

NoUrl == [base |-> "", query |-> <<>>]

\* Strings that are meant to hold a URL.  kind "junk" is a string Url::parse
\* rejects; kind "url" is a spelling of .url, the canonical one (what
\* Url::to_string gives back) or another one that Url::parse normalises;
\* kind "opaque" is a header value that is not visible ASCII.
Junk   == [kind |-> "junk",   url |-> NoUrl, canonical |-> FALSE]
Opaque == [kind |-> "opaque", url |-> NoUrl, canonical |-> FALSE]
TextOf(u, canonical) == [kind |-> "url", url |-> u, canonical |-> canonical]

\* values of a Location header
LocationValues == { Junk, Opaque } \cup { TextOf(u, TRUE) : u \in Urls }

\* values of openid.return_to
ReturnTexts == { Junk, TextOf(LoginX, FALSE) }

\* mutant: every string is taken for a URL
UrlParseAnything(text) == [ok |-> TRUE, url |-> text.url]

\* Url::parse
UrlParse(text) ==
    IF text.kind = "url" THEN [ok |-> TRUE, url |-> text.url]
    ELSE [ok |-> FALSE, url |-> NoUrl]

\* HeaderValue::to_str
HeaderToStr(value) == [ok |-> value.kind # "opaque", text |-> value]

\* status codes of the answers to a GET and to the return_to POST
GetStatuses == { 200, 302 }
PostStatuses == { 200, 302, 403 }

\* Set-Cookie of a response, as reqwest's Response::cookies() yields them
ResponseCookies ==
    { [name |-> "sid", value |-> "a", max_age |-> None,    expires |-> None],
      [name |-> "sid", value |-> "b", max_age |-> Some(1), expires |-> None],
      [name |-> "old", value |-> "a", max_age |-> None,    expires |-> Some(-1)] }

SetCookieChoices == { <<>> } \cup { <<c>> : c \in ResponseCookies }

\* Set-Cookie of the answers to the two POSTs
PostSetCookieChoices ==
    { <<>>,
      << [name |-> "session", value |-> "s", max_age |-> None, expires |-> None] >> }

\* <<name, value>> of the cookies of one answer
Pairs(cookies) == { <<cookies[i].name, cookies[i].value>> : i \in 1..Len(cookies) }

----------------------------------------------------------------------------
(* cookie_cache.rs *)

\* SimpleCookie { name, value, expires }
SimpleCookie(name, value, expires) ==
    [name |-> name, value |-> value, expires |-> expires]

\* CookieCache::new
CookieCacheNew(l) == [login_url |-> l, cookies |-> <<>>]

\* UNIX epoch on the model's clock
Epoch == 0

\* convert_cookie panics (expect) on an Expires date before the UNIX epoch
ConvertPanics(cookie) ==
    /\ cookie.max_age = None
    /\ cookie.expires # None
    /\ Unwrap(cookie.expires) < Epoch

\* convert_cookie: Max-Age wins over Expires; Max-Age counts from now
convert_cookie(cookie, t) ==
    SimpleCookie(cookie.name, cookie.value,
        IF cookie.max_age # None THEN Some(t + Unwrap(cookie.max_age))
        ELSE IF cookie.expires # None
             THEN Some(Epoch + (Unwrap(cookie.expires) - Epoch))
             ELSE None)

\* the duplicate test of ingest_cookies: same name and same value
IsDuplicate(cached, c) ==
    \E i \in 1..Len(cached) : cached[i].name = c.name /\ cached[i].value = c.value

RECURSIVE IngestFrom(_, _, _, _)
IngestFrom(cached, cookies, i, t) ==
    IF i > Len(cookies) THEN cached
    ELSE LET hashbrown == convert_cookie(cookies[i], t)
         IN  IngestFrom(IF IsDuplicate(cached, hashbrown) THEN cached
                        ELSE Append(cached, hashbrown),
                        cookies, i + 1, t)

\* CookieCache::ingest_cookies
ingest_cookies(cache, cookies, t) ==
    [cache EXCEPT !.cookies = IngestFrom(cache.cookies, cookies, 1, t)]

IngestPanics(cookies) == \E i \in 1..Len(cookies) : ConvertPanics(cookies[i])

\* mutant: a cookie that expires right now does not count as expired
IsExpiredStrictlyBefore(cache, t) ==
    \E i \in 1..Len(cache.cookies) :
        /\ cache.cookies[i].expires # None
        /\ Unwrap(cache.cookies[i].expires) < t

\* mutant: every cookie that has an expiry counts as expired
IsExpiredAnyExpiry(cache, t) ==
    \E i \in 1..Len(cache.cookies) : cache.cookies[i].expires # None

\* CookieCache::is_expired
is_expired(cache, t) ==
    \E i \in 1..Len(cache.cookies) :
        /\ cache.cookies[i].expires # None
        /\ Unwrap(cache.cookies[i].expires) <= t

\* strings HeaderValue::from_str rejects (they hold a control character)
ControlCharTexts == { "a\nb" }

HeaderValueOk(cookie) ==
    cookie.name \notin ControlCharTexts /\ cookie.value \notin ControlCharTexts

\* CookieCache::cookie_headers: one Cookie header "name=value" per entry
cookie_headers(cache) ==
    IF \A i \in 1..Len(cache.cookies) : HeaderValueOk(cache.cookies[i])
    THEN [ok |-> TRUE,
          headers |-> [i \in 1..Len(cache.cookies) |->
                          <<cache.cookies[i].name, cache.cookies[i].value>>]]
    ELSE [ok |-> FALSE, headers |-> <<>>]

\* the instants a stored expiry can name: the clock and one Max-Age beyond it
Instants == Epoch..(MaxTime + 1)

\* chrono's serde text of a DateTime<Utc> (RFC 3339); on the model's clock
\* of whole ticks the text is the decimal numeral of the instant
Rfc3339(t) == ToString(t)

\* mutant: a cookie without expiry is written with the epoch as its expiry
SerializeExpiresNullAsEpoch(expires) ==
    IF expires = None THEN Rfc3339(Epoch) ELSE Rfc3339(Unwrap(expires))

\* Serialize for Option<DateTime<Utc>>: null or the RFC 3339 text
SerializeExpires(expires) ==
    IF expires = None THEN "null" ELSE Rfc3339(Unwrap(expires))

\* Deserialize for Option<DateTime<Utc>>
DeserializeExpires(json) ==
    IF json = "null" THEN None
    ELSE Some(CHOOSE t \in Instants : Rfc3339(t) = json)

\* serde_json::to_string_pretty(&CookieCache): the JSON document
\* {"login_url": .., "cookies": [{"name": .., "value": .., "expires": ..}]}
to_string_pretty(cache) ==
    [login_url |-> cache.login_url,
     cookies |-> [i \in 1..Len(cache.cookies) |->
                    [name    |-> cache.cookies[i].name,
                     value   |-> cache.cookies[i].value,
                     expires |-> SerializeExpires(cache.cookies[i].expires)]]]

\* serde_json::from_str::<CookieCache> of such a document
from_str(json) ==
    [login_url |-> json.login_url,
     cookies |-> [i \in 1..Len(json.cookies) |->
                    SimpleCookie(json.cookies[i].name, json.cookies[i].value,
                                 DeserializeExpires(json.cookies[i].expires))]]

\* the cache file; .content is read only when .kind = "cache".  A file of
\* kind "corrupt" holds anything serde_json::from_str::<CookieCache> rejects:
\* no text, a cut-off document, JSON of another shape.
NoCache    == [login_url |-> [base |-> "", query |-> <<>>], cookies |-> <<>>]
NoContent  == [login_url |-> [base |-> "", query |-> <<>>], cookies |-> <<>>]
NoDir      == [kind |-> "nodir", content |-> NoContent]
Absent     == [kind |-> "absent", content |-> NoContent]
Unreadable == [kind |-> "unreadable", content |-> NoContent]
Corrupt    == [kind |-> "corrupt", content |-> NoContent]
CacheFile(content) == [kind |-> "cache", content |-> content]

\* CookieCache::from_cached; removeOk: whether fs::remove_file succeeds
from_cached(d, removeOk) ==
    CASE d.kind = "nodir"  -> [ok |-> FALSE, cache |-> NoCache, disk |-> d,
                               error |-> "Unable to determine cache directory."]
      [] d.kind \in {"absent", "unreadable"} ->
                              [ok |-> FALSE, cache |-> NoCache, disk |-> d,
                               error |-> "Failed to read cache file"]
      [] d.kind = "corrupt" ->
            IF removeOk
            THEN [ok |-> FALSE, cache |-> NoCache, disk |-> Absent,
                  error |-> "Cookie cache was corrupt and was deleted"]
            ELSE [ok |-> FALSE, cache |-> NoCache, disk |-> d,
                  error |-> "Cookie cache was corrupt but could not be deleted"]
      [] OTHER -> [ok |-> TRUE, cache |-> from_str(d.content), disk |-> d,
                   error |-> ""]

\* outcomes of fs::write(path, contents), which opens the file with
\* truncation and then writes into it: all written, File::create failed,
\* a write failed after the truncation, the process was killed in between
WriteOutcomes == { "written", "not_created", "truncated", "killed" }

\* CookieCache::write_cached
write_cached(cache, d, outcome) ==
    CASE d.kind = "nodir" ->
            [ok |-> FALSE, disk |-> d, error |-> "Unable to determine cache directory."]
      [] outcome = "written" ->
            [ok |-> TRUE, disk |-> CacheFile(to_string_pretty(cache)), error |-> ""]
      [] outcome \in {"truncated", "killed"} ->
            [ok |-> FALSE, disk |-> Corrupt,
             error |-> "Failed to write cookie cache to disk"]
      [] OTHER ->
            [ok |-> FALSE, disk |-> d, error |-> "Failed to write cookie cache to disk"]

----------------------------------------------------------------------------
(* mod.rs: session_from_cookie_cache *)

\* mutant: the login URL of the cache is not compared
SessionFromCacheAnyUrl(cache, l, t) ==
    IF is_expired(cache, t)
    THEN [ok |-> FALSE, headers |-> <<>>, message |-> "Cookies are expired."]
    ELSE IF ~cookie_headers(cache).ok
    THEN [ok |-> FALSE, headers |-> <<>>,
          message |-> "Failed to construct cookie headers."]
    ELSE [ok |-> TRUE, headers |-> cookie_headers(cache).headers, message |-> ""]

session_from_cookie_cache(cache, l, t) ==
    IF cache.login_url # l
    THEN [ok |-> FALSE, headers |-> <<>>,
          message |-> "Login URLs don't match. Not reusing cached cookies."]
    ELSE IF is_expired(cache, t)
    THEN [ok |-> FALSE, headers |-> <<>>, message |-> "Cookies are expired."]
    ELSE IF ~cookie_headers(cache).ok
    THEN [ok |-> FALSE, headers |-> <<>>,
          message |-> "Failed to construct cookie headers."]
    ELSE [ok |-> TRUE, headers |-> cookie_headers(cache).headers, message |-> ""]

\* Client::builder().default_headers(cookie_headers): the client of the
\* session sends its default headers, the Cookie headers of the cache among
\* them, with every request, whatever the host it goes to
SessionRequestHeaders(session, host) == session.headers

----------------------------------------------------------------------------
(* parameters.rs and the JSON body of the credentials POST *)

\* OpenIDParameters: openid.return_to and openid.sig stand for the 17 fields
OpenIDParametersSet == [ return_to : ReturnTexts, sig : { "sig1" } ]

NoParameters == [return_to |-> Junk, sig |-> ""]

\* bodies: not JSON at all, JSON of another shape (a field is missing),
\* or the envelope {success, response}
Bodies ==
    { [kind |-> "text",  success |-> FALSE, response |-> NoParameters],
      [kind |-> "other", success |-> FALSE, response |-> NoParameters] }
    \cup [ kind : {"envelope"}, success : BOOLEAN, response : OpenIDParametersSet ]

\* serde_json::from_str::<OpenIDResponse>; category as serde_json reports it
FromStr(body) ==
    CASE body.kind = "text"  ->
            [ok |-> FALSE, category |-> "syntax",
             value |-> [success |-> FALSE, response |-> NoParameters]]
      [] body.kind = "other" ->
            [ok |-> FALSE, category |-> "data",
             value |-> [success |-> FALSE, response |-> NoParameters]]
      [] OTHER ->
            [ok |-> TRUE, category |-> "",
             value |-> [success |-> body.success, response |-> body.response]]

----------------------------------------------------------------------------
(* mod.rs: OpenIDSessionBuilder::build *)

AuthUrl == [base |-> FEDORA_OPENID_API, query |-> <<>>]

\* HashMap::insert
Insert(m, k, v) == [x \in (DOMAIN m) \cup {k} |-> IF x = k THEN v ELSE m[x]]

\* mutant: the value is inserted over one that is present
InsertAlways(m, k, v) == [x \in (DOMAIN m) \cup {k} |-> IF x = k THEN v ELSE m[x]]

\* HashMap::entry(k).or_insert(v)
OrInsert(m, k, v) == IF k \in DOMAIN m THEN m ELSE Insert(m, k, v)

RECURSIVE MergeFrom(_, _, _)
MergeFrom(m, query, i) ==
    IF i > Len(query) THEN m
    ELSE MergeFrom(Insert(m, query[i][1], query[i][2]), query, i + 1)

RECURSIVE KeepFirstFrom(_, _, _)
KeepFirstFrom(m, query, i) ==
    IF i > Len(query) THEN m
    ELSE KeepFirstFrom(OrInsert(m, query[i][1], query[i][2]), query, i + 1)

\* mutant: a key that is already in the accumulator keeps its value
MergeQueryKeepFirst(m, u) == KeepFirstFrom(m, u.query, 1)

\* for (key, value) in url.query_pairs() { state.insert(key, value) }
MergeQuery(m, u) == MergeFrom(m, u.query, 1)

\* mutant: a key the redirect chain supplied keeps the chain's value
CredentialFormKeepsRedirectValues(m) ==
    OrInsert(OrInsert(OrInsert(OrInsert(OrInsert(m, "username", Username),
                                        "password", Password),
                               "auth_module", "fedoauth.auth.fas.Auth_FAS"),
                      "auth_flow", "fedora"),
             "openid.mode", "checkid_setup")

\* the inserts between the redirect loop and the credentials POST
CredentialForm(m) ==
    OrInsert(
      Insert(Insert(Insert(Insert(m, "username", Username),
                           "password", Password),
                    "auth_module", "fedoauth.auth.fas.Auth_FAS"),
             "auth_flow", "fedora"),
      "openid.mode", "checkid_setup")

\* StatusCode::is_success, StatusCode::is_redirection
IsSuccess(status) == 200 <= status /\ status <= 299
IsRedirection(status) == 300 <= status /\ status <= 399

Request(method, u, form) == [method |-> method, url |-> u, form |-> form]

NoResult == [kind |-> "none", error |-> "", detail |-> "", source |-> "",
             params |-> None, headers |-> <<>>, redirect |-> ""]

\* mutant: a session never carries the OpenID parameters
OkSessionWithoutParameters(source, params, headers) ==
    [kind |-> "Ok", error |-> "", detail |-> "", source |-> source,
     params |-> None, headers |-> headers, redirect |-> "none"]

\* Ok(OpenIDSession { client, params }); both clients are built with
\* Policy::none(); headers are the Cookie default headers of the client
OkSession(source, params, headers) ==
    [kind |-> "Ok", error |-> "", detail |-> "", source |-> source,
     params |-> params, headers |-> headers, redirect |-> "none"]

\* Err(OpenIDClientError::...)
Err(error, detail) ==
    [kind |-> "Err", error |-> error, detail |-> detail, source |-> "",
     params |-> None, headers |-> <<>>, redirect |-> ""]

\* a panic unwinds out of build()
Panic(detail) ==
    [kind |-> "Panic", error |-> "", detail |-> detail, source |-> "",
     params |-> None, headers |-> <<>>, redirect |-> ""]

\* the process was killed before build() returned
Killed ==
    [kind |-> "Killed", error |-> "", detail |-> "", source |-> "",
     params |-> None, headers |-> <<>>, redirect |-> ""]

\* mutant: a cache that cannot be loaded ends build() with the error
CacheShortcutOrLoadError(loaded, session) ==
    IF ~loaded.ok THEN Err("CookieCacheError", loaded.error)
    ELSE IF session.ok THEN OkSession("cache", None, session.headers)
    ELSE NoResult

\* match CookieCache::from_cached(): the session of a usable cache is
\* returned, in every other case build() goes on (NoResult)
CacheShortcut(loaded, session) ==
    IF loaded.ok /\ session.ok
    THEN OkSession("cache", None, session.headers)
    ELSE NoResult

\* mutant: the error of the save is returned
SaveErrorReturned(saved, session) ==
    IF saved.ok THEN session ELSE Err("CookieCacheError", saved.error)

\* if let Err(error) = cookie_cache.write_cached() { println!(..) }: the
\* error is printed and build() returns its session
AfterSave(saved, session) == session

\* mutant: the failure is passed on as any other request failure
AuthSendErrorAsRequestError(message) == Err("RequestError", message)

\* what build() returns when the credentials POST cannot be sent
AuthSendError(message) == Err("AuthenticationError", message)

\* mutant: the serde_json error is passed on with `?`
BodyParseErrorPassedOn(parsed) == Err("DeserializationError", parsed.category)

\* what build() returns when the body is not an OpenIDResponse
BodyParseError(parsed) == Err("LoginError", "")

\* mutant: the success field is not looked at
AuthAcceptedAlways(value) == TRUE

\* if !openid_auth.success
AuthAccepted(value) == value.success

\* mutant: the form of the credentials POST is posted again
ReturnFormIsState(form, auth) == form

\* .form(&openid_auth.response) of the return_to POST
ReturnForm(form, auth) == auth.response

\* mutant: the cache is written whatever the flag says
SaveAlways(flag) == TRUE

\* if self.cache_cookies, before write_cached
SaveWanted(flag) == flag

\* mutant: a redirect answer counts as a failure
FinalStatusOnlySuccess(status) == IsSuccess(status)

\* the status test after the return_to POST
FinalStatusOk(status) == IsSuccess(status) \/ IsRedirection(status)

\* How an exchange ends: a response, send() failing, or (for the body of
\* the credentials POST) Response::text() failing.  Fields that the outcome
\* does not have hold a fixed value.
NoBody == [kind |-> "none", success |-> FALSE, response |-> NoParameters]

Response(outcome, status, location, body) ==
    [outcome |-> outcome, status |-> status, location |-> location, body |-> body]

NoResponse == Response("none", 0, None, NoBody)

SendFailed == Response("send_failed", 0, None, NoBody)

\* answers to a GET; the Location of an answer that is no redirect is never
\* read; the Set-Cookie headers of the answer are drawn beside it
GetResponses ==
    { SendFailed }
    \cup { Response("response", status, None, NoBody) :
             status \in { s \in GetStatuses : ~IsRedirection(s) } }
    \cup { Response("response", status, location, NoBody) :
             status \in { s \in GetStatuses : IsRedirection(s) },
             location \in { None } \cup { Some(v) : v \in LocationValues } }

\* answers to the credentials POST
AuthResponses ==
    { SendFailed, Response("text_failed", 200, None, NoBody) }
    \cup { Response("response", 200, None, body) : body \in Bodies }

\* answers to the return_to POST
ReturnResponses ==
    { SendFailed }
    \cup { Response("response", status, None, NoBody) : status \in PostStatuses }

----------------------------------------------------------------------------
(* cookies.rs: CachingJar.  The cookie_store crate behind it is not part   *)
(* of the repository; its store is modelled by its contract: one cookie    *)
(* per host and name (the model has host-only cookies of one path), a      *)
(* lookup yields the unexpired cookies of the request's host in no         *)
(* particular order.  No operation is taken to panic while it holds the    *)
(* lock, so the lock is never poisoned and the unwrap()s pass.             *)

\* exchanges in flight on one jar
MaxRequests == 2

Threads == 1..MaxRequests

Hosts == { "bodhi", "id" }

\* an empty cookie store: CachingJar::empty
EmptyStore == <<>>

\* a stored cookie; its key in the store is <<host, name>>
StoredCookie(value, expires) == [value |-> value, expires |-> expires]

\* Set-Cookie headers of the answer to exchange t: two cookies, and between
\* them a header that is no cookie
SetCookieHeaders(t) ==
    << [kind |-> "cookie",   name |-> "sid", value |-> "s" \o ToString(t)],
       [kind |-> "not_utf8", name |-> "",    value |-> ""],
       [kind |-> "cookie",   name |-> "tok", value |-> "t" \o ToString(t)] >>

\* parse_cookie: from_utf8, then Cookie::parse
parse_cookie(header) ==
    [ok |-> header.kind = "cookie",
     cookie |-> [name |-> header.name, value |-> header.value]]

\* the iterator set_cookies hands to the store: the headers that parse
ParsedCookies(headers) ==
    LET good == SelectSeq(headers, LAMBDA h : parse_cookie(h).ok)
    IN  [i \in 1..Len(good) |-> parse_cookie(good[i]).cookie]

\* store_response_cookies puts one cookie under the host of the URL
StoreCookie(st, host, cookie) ==
    Insert(st, <<host, cookie.name>>, StoredCookie(cookie.value, None))

\* cookie.is_expired()
CookieIsExpired(cookie, t) == cookie.expires # None /\ Unwrap(cookie.expires) <= t

\* mutant: the host of the request is not compared
GetRequestCookiesAnyHost(st, host, t) ==
    { k \in DOMAIN st : ~CookieIsExpired(st[k], t) }

\* get_request_cookies(url): the keys of the cookies sent to `host`
get_request_cookies(st, host, t) ==
    { k \in DOMAIN st : k[1] = host /\ ~CookieIsExpired(st[k], t) }

\* the orders in which an iterator can yield the elements of S
Orderings(S) ==
    { o \in [1..Cardinality(S) -> S] : \A i, j \in 1..Cardinality(S) : o[i] = o[j] => i = j }

\* Vec<String>::join(sep)
RECURSIVE Join(_, _)
Join(items, sep) ==
    IF items = <<>> THEN ""
    ELSE IF Len(items) = 1 THEN items[1]
    ELSE items[1] \o sep \o Join(Tail(items), sep)

\* HeaderValue::from_maybe_shared(..).ok() of the text joined from `order`
from_maybe_shared(text, st, order) ==
    IF \A i \in 1..Len(order) :
          HeaderValueOk([name |-> order[i][2], value |-> st[order[i]].value])
    THEN Some(text)
    ELSE None

\* CachingJar::cookies with the store yielding its cookies in `order`
CachingJar_cookies(st, order) ==
    LET s == Join([i \in 1..Len(order) |-> order[i][2] \o "=" \o st[order[i]].value],
                  "; ")
    IN  IF s = "" THEN None ELSE from_maybe_shared(s, st, order)

\* what cookies() has returned to an exchange
NotCalled == [called |-> FALSE, header |-> None]
Returned(header) == [called |-> TRUE, header |-> header]

\* the jar's file; .store is what serde_json::from_str makes of its text
JarNoHome     == [kind |-> "nohome",     store |-> EmptyStore]
JarAbsent     == [kind |-> "absent",     store |-> EmptyStore]
JarUnreadable == [kind |-> "unreadable", store |-> EmptyStore]
JarNotUtf8    == [kind |-> "not_utf8",   store |-> EmptyStore]
JarCorrupt    == [kind |-> "corrupt",    store |-> EmptyStore]
JarFile(st)   == [kind |-> "store", store |-> st]

\* the stores a file can hold
JarStores ==
    { EmptyStore,
      [k \in { <<"bodhi", "sid">> } |-> StoredCookie("old", None)],
      [k \in { <<"bodhi", "sid">> } |-> StoredCookie("old", Some(0))],
      [k \in { <<"bodhi", "sid">>, <<"id", "tok">> } |->
          IF k[1] = "id" THEN StoredCookie("x", None) ELSE StoredCookie("a\nb", None)],
      [k \in { <<"bodhi", "sid">>, <<"id", "tok">> } |->
          IF k[1] = "id" THEN StoredCookie("x", None) ELSE StoredCookie("old", Some(0))] }

JarDisks ==
    { JarNoHome, JarAbsent, JarUnreadable, JarNotUtf8, JarCorrupt }
        \cup { JarFile(st) : st \in JarStores }

\* mutant: a store with an expired cookie is refused as not deserializable
ReadFromDiskRefusesExpired(d, t) ==
    CASE d.kind = "nohome" ->
            [ok |-> FALSE, error |-> "FileSystemError", store |-> EmptyStore, state |-> ""]
      [] d.kind = "absent" ->
            [ok |-> FALSE, error |-> "DoesNotExist", store |-> EmptyStore, state |-> ""]
      [] d.kind \in { "unreadable", "not_utf8" } ->
            [ok |-> FALSE, error |-> "FileSystemError", store |-> EmptyStore, state |-> ""]
      [] d.kind = "corrupt" \/ \E k \in DOMAIN d.store : CookieIsExpired(d.store[k], t) ->
            [ok |-> FALSE, error |-> "SerializationError", store |-> EmptyStore,
             state |-> ""]
      [] OTHER ->
            [ok |-> TRUE, error |-> "", store |-> d.store, state |-> "Fresh"]

\* CachingJar::read_from_disk
read_from_disk(d, t) ==
    CASE d.kind = "nohome" ->
            [ok |-> FALSE, error |-> "FileSystemError", store |-> EmptyStore, state |-> ""]
      [] d.kind = "absent" ->
            [ok |-> FALSE, error |-> "DoesNotExist", store |-> EmptyStore, state |-> ""]
      [] d.kind \in { "unreadable", "not_utf8" } ->
            [ok |-> FALSE, error |-> "FileSystemError", store |-> EmptyStore, state |-> ""]
      [] d.kind = "corrupt" ->
            [ok |-> FALSE, error |-> "SerializationError", store |-> EmptyStore,
             state |-> ""]
      [] OTHER ->
            [ok |-> TRUE, error |-> "", store |-> d.store,
             state |-> IF \E k \in DOMAIN d.store : CookieIsExpired(d.store[k], t)
                       THEN "Expired" ELSE "Fresh"]

\* mutant: build() goes on with whatever jar was read
OpenedStoreKeepsLoaded(loaded) == loaded.store

\* openid.rs: the jar build() goes on with: the loaded one when it is fresh,
\* CachingJar::empty() in every other case
OpenedStore(loaded) ==
    IF loaded.ok /\ loaded.state = "Fresh" THEN loaded.store ELSE EmptyStore

\* RwLock: read() is granted while no writer holds the lock, write() while
\* nobody holds it
Unlocked == [writers |-> {}, readers |-> {}]

CanRead(l) == l.writers = {}

\* mutant: write() does not wait for the holders of the lock
CanWriteAlways(l) == TRUE

CanWrite(l) == l.writers = {} /\ l.readers = {}

----------------------------------------------------------------------------
(* the specification of build() *)

\* the caches a file can hold before the first build
InitCaches ==
    { [login_url |-> LoginX, cookies |-> <<>>],
      [login_url |-> LoginX, cookies |-> << SimpleCookie("sid", "a", Some(1)) >>],
      [login_url |-> LoginX, cookies |-> << SimpleCookie("sid", "a\nb", None) >>] }

InitDisks ==
    { NoDir, Absent, Unreadable, Corrupt }
        \cup { CacheFile(to_string_pretty(c)) : c \in InitCaches }

\* no build() is running: its locals hold fixed values
BuilderAtRest ==
    /\ cache_cookies = FALSE
    /\ pc = "idle"
    /\ url = login_url
    /\ state = <<>>
    /\ cookie_cache = CookieCacheNew(LoginX)
    /\ openid_auth = None
    /\ return_url = None
    /\ result = NoResult
    /\ requests = <<>>
    /\ response = NoResponse
    /\ disk0 = disk
    /\ saves = 0
    /\ disk_saved = FALSE
    /\ stdout = <<>>
    /\ received = {}
    /\ now = 0

\* no jar is in use
JarAtRest ==
    /\ jar_disk = JarAbsent
    /\ jar_loaded = None
    /\ store = EmptyStore
    /\ lock = Unlocked
    /\ jar_pc = [t \in Threads |-> "idle"]
    /\ jar_dest = [t \in Threads |-> "bodhi"]
    /\ jar_todo = [t \in Threads |-> <<>>]
    /\ jar_seen = [t \in Threads |-> NotCalled]
    /\ jar_order = <<>>

\* no OpenIDClient is in use
ClientAtRest ==
    /\ authenticated = FALSE
    /\ accepted = FALSE

Init ==
    /\ login_url = LoginX
    /\ disk \in InitDisks
    /\ BuilderAtRest
    /\ JarAtRest
    /\ ClientAtRest

\* build(), lines 123-173: the builder's fields, the cache shortcut, the
\* login client and the locals of the redirect loop
StartBuild ==
    /\ pc = "idle"
    /\ UNCHANGED <<jar_vars, client_vars>>
    /\ \E l \in LoginUrls, c \in BOOLEAN, removeOk \in BOOLEAN :
        LET loaded == from_cached(disk, removeOk)
            session == session_from_cookie_cache(loaded.cache, l, now)
        IN  /\ disk.kind # "corrupt" => removeOk
            /\ login_url' = l
            /\ cache_cookies' = c
            /\ disk0' = disk
            /\ disk' = loaded.disk
            /\ disk_saved' = (disk_saved /\ loaded.disk = disk)
            /\ saves' = 0
            /\ requests' = <<>>
            /\ response' = NoResponse
            /\ openid_auth' = None
            /\ return_url' = None
            /\ url' = l
            /\ state' = <<>>
            /\ cookie_cache' = CookieCacheNew(l)
            /\ stdout' = IF loaded.ok THEN stdout ELSE Append(stdout, loaded.error)
            /\ received' = {}
            /\ result' = CacheShortcut(loaded, session)
            /\ pc' = IF result'.kind = "none" THEN "get" ELSE "done"
    /\ UNCHANGED now

\* mutant: build() notes the result and goes on where it was
FinishAndGoOn(r) ==
    /\ result' = r
    /\ pc' = pc

Finish(r) ==
    /\ result' = r
    /\ pc' = "done"

\* one iteration of the redirect loop, lines 177-214
WalkGet ==
    /\ pc = "get"
    /\ UNCHANGED <<jar_vars, client_vars>>
    /\ requests' = Append(requests, Request("GET", url, <<>>))
    /\ \E r \in GetResponses, cookies \in SetCookieChoices :
        /\ response' = r
        /\ received' = received \cup Pairs(cookies)
        /\ r.outcome = "send_failed" => cookies = <<>>
        \* a panic in ingest_cookies comes before the Location is read
        /\ IngestPanics(cookies) => r.location = None
        /\ IF r.outcome = "send_failed"
           THEN /\ Finish(Err("RequestError", ""))
                /\ UNCHANGED <<url, state, cookie_cache>>
           ELSE IF IngestPanics(cookies)
           THEN /\ Finish(Panic("Cookie expiration date is before UNIX epoch"))
                /\ UNCHANGED <<url, state, cookie_cache>>
           ELSE /\ cookie_cache' = ingest_cookies(cookie_cache, cookies, now)
                /\ state' = MergeQuery(state, url)
                /\ IF ~IsRedirection(r.status)
                   THEN /\ pc' = "post_auth"
                        /\ UNCHANGED <<url, result>>
                   ELSE IF r.location = None
                   THEN /\ Finish(Err("RedirectionError",
                                   "No redirect URL provided in HTTP redirect headers."))
                        /\ UNCHANGED url
                   ELSE IF ~HeaderToStr(Unwrap(r.location)).ok
                   THEN /\ Finish(Err("RedirectionError", "Failed to decode redirect URL."))
                        /\ UNCHANGED url
                   ELSE IF ~UrlParse(HeaderToStr(Unwrap(r.location)).text).ok
                   THEN /\ Finish(Err("UrlParsingError", ""))
                        /\ UNCHANGED url
                   ELSE \* the server ends every chain after MaxHops redirects
                        /\ Len(requests) < MaxHops
                        /\ url' = UrlParse(HeaderToStr(Unwrap(r.location)).text).url
                        /\ UNCHANGED <<pc, result>>
    /\ UNCHANGED <<login_url, cache_cookies, openid_auth, return_url, disk, disk0,
                   saves, disk_saved, stdout, now>>

\* the credentials POST and what follows it up to the second POST, lines 216-254
PostAuth ==
    /\ pc = "post_auth"
    /\ UNCHANGED <<jar_vars, client_vars>>
    /\ state' = CredentialForm(state)
    /\ requests' = Append(requests, Request("POST", AuthUrl, state'))
    /\ \E r \in AuthResponses, cookies \in PostSetCookieChoices :
        /\ response' = r
        /\ r.outcome = "send_failed" => cookies = <<>>
        \* the answer is not handed to ingest_cookies
        /\ received' = received \cup Pairs(cookies)
        /\ LET parsed == FromStr(r.body)
           IN  IF r.outcome = "send_failed"
               THEN /\ Finish(AuthSendError("error sending request"))
                    /\ UNCHANGED <<openid_auth, return_url>>
               ELSE IF r.outcome = "text_failed"
               THEN /\ Finish(Err("RequestError", ""))
                    /\ UNCHANGED <<openid_auth, return_url>>
               ELSE IF ~parsed.ok
               THEN /\ Finish(BodyParseError(parsed))
                    /\ UNCHANGED <<openid_auth, return_url>>
               ELSE IF ~AuthAccepted(parsed.value)
               THEN /\ Finish(Err("AuthenticationError",
                                  "OpenID endpoint returned an error code."))
                    /\ openid_auth' = Some(parsed.value)
                    /\ UNCHANGED return_url
               ELSE IF ~UrlParse(parsed.value.response.return_to).ok
               THEN /\ Finish(Err("UrlParsingError", ""))
                    /\ openid_auth' = Some(parsed.value)
                    /\ UNCHANGED return_url
               ELSE /\ openid_auth' = Some(parsed.value)
                    /\ return_url' = Some(UrlParse(parsed.value.response.return_to).url)
                    /\ pc' = "post_return"
                    /\ UNCHANGED result
    /\ UNCHANGED <<login_url, cache_cookies, url, cookie_cache, disk, disk0,
                   saves, disk_saved, stdout, now>>

\* the return_to POST, the status test, the save and the return, lines 256-277
PostReturn ==
    /\ pc = "post_return"
    /\ UNCHANGED <<jar_vars, client_vars>>
    /\ requests' = Append(requests,
                          Request("POST", Unwrap(return_url),
                                  ReturnForm(state, Unwrap(openid_auth))))
    /\ \E r \in ReturnResponses, cookies \in PostSetCookieChoices,
          outcome \in WriteOutcomes :
        LET saved == write_cached(cookie_cache, disk, outcome)
            session == OkSession("login", Some(Unwrap(openid_auth).response), <<>>)
        IN  /\ response' = r
            /\ r.outcome = "send_failed" => cookies = <<>>
            \* the answer is not handed to ingest_cookies
            /\ received' = received \cup Pairs(cookies)
            /\ (r.outcome = "send_failed" \/ ~FinalStatusOk(r.status)
                   \/ ~SaveWanted(cache_cookies))
                  => outcome = "written"
            \* without a cache directory write_cached returns before fs::write
            /\ disk.kind = "nodir" => outcome = "written"
            /\ IF r.outcome = "send_failed"
               THEN /\ Finish(Err("RequestError", ""))
                    /\ UNCHANGED <<disk, saves, disk_saved, stdout>>
               ELSE IF ~FinalStatusOk(r.status)
               THEN /\ Finish(Err("AuthenticationError",
                                  "Failed to complete authentication with the original site."))
                    /\ UNCHANGED <<disk, saves, disk_saved, stdout>>
               ELSE IF ~SaveWanted(cache_cookies)
               THEN /\ Finish(session)
                    /\ UNCHANGED <<disk, saves, disk_saved, stdout>>
               ELSE /\ disk' = saved.disk
                    /\ disk_saved' = IF saved.ok THEN TRUE
                                     ELSE (disk_saved /\ saved.disk = disk)
                    /\ saves' = saves + 1
                    /\ IF outcome = "killed"
                       THEN /\ Finish(Killed)
                            /\ UNCHANGED stdout
                       ELSE /\ Finish(AfterSave(saved, session))
                            /\ stdout' = IF saved.ok THEN stdout
                                         ELSE Append(stdout, saved.error)
    /\ UNCHANGED <<login_url, cache_cookies, url, state, cookie_cache, openid_auth,
                   return_url, disk0, now>>

\* The clock.  build() reads it in is_expired (StartBuild) and convert_cookie
\* (WalkGet) only, so a tick during the two POSTs equals a tick after them.
\* After build() has returned the clock runs on when the process has ended.
Tick ==
    /\ pc \in {"idle", "get"}
    /\ UNCHANGED <<jar_vars, client_vars>>
    /\ now < MaxTime
    /\ now' = now + 1
    /\ UNCHANGED <<login_url, cache_cookies, pc, url, state, cookie_cache, openid_auth,
                   return_url, result, requests, response, disk, disk0, saves,
                   disk_saved, stdout, received>>

\* The process ends: the session and every local of build() are dropped, the
\* cache file and the clock stay.  A later build is a later process run.
Exit ==
    /\ pc = "done"
    /\ UNCHANGED <<jar_vars, client_vars>>
    /\ pc' = "idle"
    /\ login_url' = LoginX
    /\ cache_cookies' = FALSE
    /\ url' = LoginX
    /\ state' = <<>>
    /\ cookie_cache' = CookieCacheNew(LoginX)
    /\ openid_auth' = None
    /\ return_url' = None
    /\ result' = NoResult
    /\ requests' = <<>>
    /\ response' = NoResponse
    /\ disk0' = disk
    /\ saves' = 0
    /\ stdout' = <<>>
    /\ received' = {}
    /\ UNCHANGED <<disk, disk_saved, now>>

Next == StartBuild \/ WalkGet \/ PostAuth \/ PostReturn \/ Exit \/ Tick

Spec == Init /\ [][Next]_vars

----------------------------------------------------------------------------
(* the specification of the CachingJar: build() of openid.rs opens the jar, *)
(* then the exchanges of the HTTP client use it, each with a lookup before  *)
(* its request and an ingestion of the answer's cookies                     *)

JarInit ==
    /\ login_url = LoginX
    /\ disk = Absent
    /\ BuilderAtRest
    /\ ClientAtRest
    /\ jar_disk \in JarDisks
    /\ jar_loaded = None
    /\ store = EmptyStore
    /\ lock = Unlocked
    /\ jar_pc = [t \in Threads |-> "idle"]
    /\ jar_dest \in [Threads -> Hosts]
    /\ jar_todo = [t \in Threads |-> <<>>]
    /\ jar_seen = [t \in Threads |-> NotCalled]
    /\ jar_order = <<>>

builder_vars == <<login_url, cache_cookies, pc, url, state, cookie_cache, openid_auth,
                  return_url, result, requests, response, disk, disk0, saves,
                  disk_saved, stdout, received, now>>

\* read_from_disk and the choice of the jar in build() of openid.rs
JarOpen ==
    /\ jar_loaded = None
    /\ jar_loaded' = Some(read_from_disk(jar_disk, now))
    /\ store' = OpenedStore(read_from_disk(jar_disk, now))
    /\ UNCHANGED <<jar_disk, lock, jar_pc, jar_dest, jar_todo, jar_seen, jar_order,
                   builder_vars, client_vars>>

\* cookies(): self.store.read()
LockRead(t) ==
    /\ jar_loaded # None
    /\ jar_pc[t] = "idle"
    /\ CanRead(lock)
    /\ lock' = [lock EXCEPT !.readers = @ \cup {t}]
    /\ jar_pc' = [jar_pc EXCEPT ![t] = "reading"]
    /\ UNCHANGED <<jar_disk, jar_loaded, store, jar_dest, jar_todo, jar_seen,
                   jar_order, builder_vars, client_vars>>

\* cookies(): the rest of it under the read guard, and the guard's drop
Cookies(t) ==
    /\ jar_pc[t] = "reading"
    /\ \E order \in Orderings(get_request_cookies(store, jar_dest[t], now)) :
          jar_seen' = [jar_seen EXCEPT ![t] = Returned(CachingJar_cookies(store, order))]
    /\ lock' = [lock EXCEPT !.readers = @ \ {t}]
    /\ jar_pc' = [jar_pc EXCEPT ![t] = "sent"]
    /\ UNCHANGED <<jar_disk, jar_loaded, store, jar_dest, jar_todo, jar_order,
                   builder_vars, client_vars>>

\* set_cookies(): self.store.write(), with the iterator of parsed cookies
LockWrite(t) ==
    /\ jar_pc[t] = "sent"
    /\ CanWrite(lock)
    /\ lock' = [lock EXCEPT !.writers = @ \cup {t}]
    /\ jar_todo' = [jar_todo EXCEPT ![t] = ParsedCookies(SetCookieHeaders(t))]
    /\ jar_pc' = [jar_pc EXCEPT ![t] = "writing"]
    /\ UNCHANGED <<jar_disk, jar_loaded, store, jar_dest, jar_seen, jar_order,
                   builder_vars, client_vars>>

\* set_cookies(): store_response_cookies takes the next cookie
StoreNext(t) ==
    /\ jar_pc[t] = "writing"
    /\ jar_todo[t] # <<>>
    /\ store' = StoreCookie(store, jar_dest[t], Head(jar_todo[t]))
    /\ jar_todo' = [jar_todo EXCEPT ![t] = Tail(@)]
    /\ UNCHANGED <<jar_disk, jar_loaded, lock, jar_pc, jar_dest, jar_seen, jar_order,
                   builder_vars, client_vars>>

\* set_cookies(): the write guard is dropped
Unlock(t) ==
    /\ jar_pc[t] = "writing"
    /\ jar_todo[t] = <<>>
    /\ lock' = [lock EXCEPT !.writers = @ \ {t}]
    /\ jar_order' = Append(jar_order, t)
    /\ jar_pc' = [jar_pc EXCEPT ![t] = "done"]
    /\ UNCHANGED <<jar_disk, jar_loaded, store, jar_dest, jar_todo, jar_seen,
                   builder_vars, client_vars>>

JarStep(t) == LockRead(t) \/ Cookies(t) \/ LockWrite(t) \/ StoreNext(t) \/ Unlock(t)

JarNext == JarOpen \/ \E t \in Threads : JarStep(t)

JarSpec == JarInit /\ [][JarNext]_vars

\* the threads of the exchanges are scheduled: one that can take its next
\* step, and stays able to, takes it
JarLiveSpec ==
    JarInit /\ [][JarNext]_vars /\ WF_vars(JarOpen) /\ \A t \in Threads : WF_vars(JarStep(t))

----------------------------------------------------------------------------
(* lib.rs: OpenIDClient.  login() has the locals url and state of build()   *)
(* and is cut the same way: Login is the call, LoginGet one iteration of    *)
(* the redirect loop, LoginPost the authentication POST and the return.     *)

\* the inserts between the redirect loop and the POST of login()
LoginForm(m) ==
    LET form == Insert(Insert(Insert(Insert(m, "username", Username),
                                     "password", Password),
                              "auth_module", "fedoauth.auth.fas.Auth_FAS"),
                       "auth_flow", "fedora")
    IN  IF "openid.mode" \in DOMAIN form THEN form
        ELSE Insert(form, "openid.mode", "checkid_setup")

\* Ok(()) of login()
LoginOk ==
    [kind |-> "Ok", error |-> "", detail |-> "", source |-> "login",
     params |-> None, headers |-> <<>>, redirect |-> "none"]

\* answers to the POST of login(); login() reads neither status nor body
LoginPostResponses ==
    { SendFailed }
    \cup { Response("response", status, None, body) :
             status \in PostStatuses,
             body \in { b \in Bodies : b.kind = "text" \/
                          (b.kind = "envelope" /\ b.response.return_to = Junk) } }

\* the OpenID service has accepted the credentials
Accepts(r) ==
    /\ r.outcome = "response"
    /\ IsSuccess(r.status)
    /\ r.body.kind = "envelope"
    /\ r.body.success

\* the state after OpenIDClientBuilder::build
ClientInit ==
    /\ login_url \in LoginUrls
    /\ disk = Absent
    /\ BuilderAtRest
    /\ JarAtRest
    /\ authenticated = FALSE
    /\ accepted = FALSE

\* login() is called
Login ==
    /\ pc \in { "idle", "done" }
    /\ url' = login_url
    /\ state' = <<>>
    /\ requests' = <<>>
    /\ response' = NoResponse
    /\ result' = NoResult
    /\ pc' = "get"
    /\ UNCHANGED <<login_url, cache_cookies, cookie_cache, openid_auth, return_url,
                   disk, disk0, saves, disk_saved, stdout, received, now,
                   jar_vars, client_vars>>

\* one iteration of the redirect loop of login()
LoginGet ==
    /\ pc = "get"
    /\ requests' = Append(requests, Request("GET", url, <<>>))
    /\ \E r \in GetResponses :
        /\ response' = r
        /\ IF r.outcome = "send_failed"
           THEN /\ Finish(Err("RequestError", ""))
                /\ UNCHANGED <<url, state>>
           ELSE /\ state' = MergeQuery(state, url)
                /\ IF ~IsRedirection(r.status)
                   THEN /\ pc' = "post_auth"
                        /\ UNCHANGED <<url, result>>
                   ELSE IF r.location = None
                   THEN /\ Finish(Err("RedirectionError",
                                   "No redirect URL provided in HTTP redirect headers."))
                        /\ UNCHANGED url
                   ELSE IF ~HeaderToStr(Unwrap(r.location)).ok
                   THEN /\ Finish(Err("RedirectionError", "Failed to decode redirect URL."))
                        /\ UNCHANGED url
                   ELSE IF ~UrlParse(HeaderToStr(Unwrap(r.location)).text).ok
                   THEN /\ Finish(Err("UrlParsingError", ""))
                        /\ UNCHANGED url
                   ELSE \* the server ends every chain after MaxHops redirects
                        /\ Len(requests) < MaxHops
                        /\ url' = UrlParse(HeaderToStr(Unwrap(r.location)).text).url
                        /\ UNCHANGED <<pc, result>>
    /\ UNCHANGED <<login_url, cache_cookies, cookie_cache, openid_auth, return_url,
                   disk, disk0, saves, disk_saved, stdout, received, now,
                   jar_vars, client_vars>>

\* the authentication POST of login() and its return
LoginPost ==
    /\ pc = "post_auth"
    /\ state' = LoginForm(state)
    /\ requests' = Append(requests, Request("POST", AuthUrl, state'))
    /\ \E r \in LoginPostResponses :
        /\ response' = r
        /\ accepted' = (accepted \/ Accepts(r))
        /\ IF r.outcome = "send_failed"
           THEN /\ Finish(Err("AuthenticationError", "error sending request"))
                /\ UNCHANGED authenticated
           ELSE /\ authenticated' = TRUE
                /\ Finish(LoginOk)
    /\ UNCHANGED <<login_url, cache_cookies, url, cookie_cache, openid_auth, return_url,
                   disk, disk0, saves, disk_saved, stdout, received, now, jar_vars>>

ClientNext == Login \/ LoginGet \/ LoginPost

ClientSpec == ClientInit /\ [][ClientNext]_vars

----------------------------------------------------------------------------
(* Claims *)

\* the cache a file of kind "cache" holds
Stored(d) == from_str(d.content)

\* no entry of the cache has an expiry at or before t
Fresh(cache, t) ==
    \A i \in 1..Len(cache.cookies) :
        cache.cookies[i].expires = None \/ Unwrap(cache.cookies[i].expires) > t

\* every entry of the cache can be written as a Cookie header value
Renderable(cache) ==
    \A i \in 1..Len(cache.cookies) :
        /\ cache.cookies[i].name \notin ControlCharTexts
        /\ cache.cookies[i].value \notin ControlCharTexts

\* build() has returned, and when it started the cache file held a cache
\* stored under the requested login URL that is fresh
LoadedFreshSameUrl ==
    /\ pc = "done"
    /\ disk0.kind = "cache"
    /\ Stored(disk0).login_url = login_url
    /\ Fresh(Stored(disk0), now)

\* build() returned a session made from the cache, without any request
CacheHit ==
    /\ result.kind = "Ok"
    /\ result.source = "cache"
    /\ result.params = None
    /\ requests = <<>>

\* C1 as stated: with caching enabled, a cache that loads, is stored under
\* the requested login URL and is fresh makes build() return a session from
\* the cache, with no HTTP request and no OpenID parameters.
C1_FreshCacheIsReused ==
    (LoadedFreshSameUrl /\ cache_cookies) => CacheHit

\* C1 amended: the same, for a cache whose every cookie can be written as a
\* Cookie header value.
C1_RenderableFreshCacheIsReused ==
    (LoadedFreshSameUrl /\ cache_cookies /\ Renderable(Stored(disk0))) => CacheHit

C1_Witness ==
    /\ LoadedFreshSameUrl
    /\ cache_cookies
    /\ Renderable(Stored(disk0))
    /\ Stored(disk0).cookies # <<>>
    /\ CacheHit

\* the requests of a complete live login: GETs, then the two POSTs
LiveLoginRequests ==
    /\ Len(requests) >= 3
    /\ requests[1].method = "GET"
    /\ requests[Len(requests) - 1].method = "POST"
    /\ requests[Len(requests) - 1].url = AuthUrl
    /\ requests[Len(requests)].method = "POST"

\* C2: a build that finds a cache stored under another login URL than the
\* requested one never returns a session from the cache; it starts the
\* redirect walk, and a session it returns comes from a live login with
\* both POSTs.
C2_OtherUrlCacheNotReused ==
    (pc # "idle" /\ disk0.kind = "cache" /\ Stored(disk0).login_url # login_url)
        => /\ result.source # "cache"
           /\ pc = "done" => requests # <<>> /\ requests[1].method = "GET"
           /\ result.kind = "Ok" => LiveLoginRequests /\ result.source = "login"

\* a fresh cache saved by an earlier login for one URL, a build for another
\* URL that ended with a session
C2_Witness ==
    /\ pc = "done"
    /\ disk_saved
    /\ disk = disk0
    /\ disk0.kind = "cache"
    /\ Stored(disk0).login_url # login_url
    /\ Stored(disk0).cookies # <<>>
    /\ Fresh(Stored(disk0), now)
    /\ Renderable(Stored(disk0))
    /\ result.kind = "Ok"

\* C3 as stated: with caching disabled build() makes no use of the cache
\* file: it never returns a session from the cache, and it has sent a request
\* of the network login when it returns.
C3_DisabledCachingNeverHits ==
    (pc # "idle" /\ ~cache_cookies)
        => /\ result.source # "cache"
           /\ pc = "done" => requests # <<>>

\* the keys of the query of a URL
KeysOf(u) == { u.query[i][1] : i \in 1..Len(u.query) }

\* the value of key k in the query of u: that of its last occurrence
ValueIn(u, k) ==
    LET last == CHOOSE i \in 1..Len(u.query) :
                    /\ u.query[i][1] = k
                    /\ \A j \in (i + 1)..Len(u.query) : u.query[j][1] # k
    IN  u.query[last][2]

\* the latest hop whose query has key k
LatestHop(k) ==
    CHOOSE i \in 1..Len(requests) :
        /\ k \in KeysOf(requests[i].url)
        /\ \A j \in (i + 1)..Len(requests) : k \notin KeysOf(requests[j].url)

\* C4: when the walk has ended, the accumulator's keys are the query keys of
\* all hop URLs, and each key has the value of the latest hop URL with it.
C4_AccumulatorIsLatestPerKey ==
    pc = "post_auth" =>
        /\ DOMAIN state = UNION { KeysOf(requests[i].url) : i \in 1..Len(requests) }
        /\ \A k \in DOMAIN state : state[k] = ValueIn(requests[LatestHop(k)].url, k)

\* two redirects; a key of the starting URL overridden by a later hop, and
\* keys from different hops
C4_Witness ==
    /\ pc = "post_auth"
    /\ Len(requests) = 3
    /\ "foo" \in KeysOf(requests[1].url)
    /\ ValueIn(requests[1].url, "foo") = "1"
    /\ "username" \in KeysOf(requests[2].url)
    /\ DOMAIN state = { "foo", "username", "openid.mode" }
    /\ state["foo"] = "2"

\* a POST has been sent
AuthPosted == \E i \in 1..Len(requests) : requests[i].method = "POST"

\* the place of the credentials POST among the requests: the first POST
AuthIndex ==
    CHOOSE i \in 1..Len(requests) :
        /\ requests[i].method = "POST"
        /\ \A j \in 1..(i - 1) : requests[j].method = "GET"

\* the last request sent is the credentials POST: `response` is its answer
LastIsAuthPost == AuthPosted /\ AuthIndex = Len(requests)

\* the last request sent is the return_to POST: `response` is its answer
LastIsReturnPost == AuthPosted /\ AuthIndex < Len(requests)

\* build() has returned the error `error`, so it sends nothing more
Failed(error) == pc = "done" /\ result.kind = "Err" /\ result.error = error

\* C5: a body of the credentials POST that is not JSON makes build() return
\* LoginError (not DeserializationError), and the return_to POST is not sent.
C5_NotJsonIsLoginError ==
    (LastIsAuthPost /\ response.outcome = "response" /\ response.body.kind = "text")
        => Failed("LoginError")

C5_Witness ==
    /\ LastIsAuthPost
    /\ response.outcome = "response"
    /\ response.body.kind = "text"
    /\ Failed("LoginError")

\* C6 as stated: a body that is JSON of another shape than the envelope makes
\* build() return DeserializationError, and LoginError is returned only for
\* a body that is not JSON.
C6_WrongShapeIsDeserializationError ==
    (LastIsAuthPost /\ response.outcome = "response")
        => /\ response.body.kind = "other" => Failed("DeserializationError")
           /\ Failed("LoginError") => response.body.kind = "text"

\* C7: an envelope with success = false makes build() return
\* AuthenticationError; the return_to POST is not sent, no session is returned.
C7_RejectionIsAuthenticationError ==
    (LastIsAuthPost /\ response.outcome = "response"
                    /\ response.body.kind = "envelope" /\ ~response.body.success)
        => Failed("AuthenticationError")

\* a rejection whose return_to is a good URL
C7_Witness ==
    /\ LastIsAuthPost
    /\ response.outcome = "response"
    /\ response.body.kind = "envelope"
    /\ ~response.body.success
    /\ response.body.response.return_to.kind = "url"
    /\ Failed("AuthenticationError")

\* C8: when the return_to POST is answered, build() returns a session exactly
\* for a 2xx or 3xx status and AuthenticationError for any other; the
\* session's parameters are the provider's, and their return_to spells the
\* URL of the second POST.  (A process that is killed inside the save
\* returns nothing.)
C8_FinalStatusDecides ==
    (LastIsReturnPost /\ response.outcome = "response" /\ result.kind # "Killed")
        => /\ pc = "done"
           /\ result.kind = "Ok" <=> (response.status \div 100) \in {2, 3}
           /\ result.kind # "Ok" => Failed("AuthenticationError")
           /\ result.kind = "Ok" =>
                /\ result.source = "login"
                /\ result.params = Some(Unwrap(openid_auth).response)
                /\ Unwrap(result.params).return_to.kind = "url"
                /\ Unwrap(result.params).return_to.url = requests[Len(requests)].url

\* a session after a 302 answer to the return_to POST
C8_Witness ==
    /\ LastIsReturnPost
    /\ response.outcome = "response"
    /\ response.status = 302
    /\ result.kind = "Ok"
    /\ result.params # None

\* C9: a return_to that is no URL makes build() return UrlParsingError
\* without a second POST; a second POST goes to the URL that return_to
\* spells, with the provider's parameters as its form.
C9_ReturnToDecidesSecondPost ==
    /\ (LastIsAuthPost /\ response.outcome = "response"
                       /\ response.body.kind = "envelope" /\ response.body.success)
          => /\ openid_auth = Some([success |-> TRUE, response |-> response.body.response])
             /\ response.body.response.return_to.kind # "url" => Failed("UrlParsingError")
    /\ LastIsReturnPost
          => /\ Unwrap(openid_auth).response.return_to.kind = "url"
             /\ requests[Len(requests)].url = Unwrap(openid_auth).response.return_to.url
             /\ requests[Len(requests)].form = Unwrap(openid_auth).response

C9_Witness ==
    /\ LastIsAuthPost
    /\ response.outcome = "response"
    /\ response.body.kind = "envelope"
    /\ response.body.success
    /\ response.body.response.return_to.kind = "junk"
    /\ Failed("UrlParsingError")

\* C10: when send() fails, build() returns at once: AuthenticationError with
\* the transport's message for the credentials POST, RequestError for a GET
\* of the walk and for the return_to POST.
C10_SendFailures ==
    response.outcome = "send_failed"
        => IF LastIsAuthPost
           THEN Failed("AuthenticationError") /\ result.detail = "error sending request"
           ELSE Failed("RequestError")

C10_Witness ==
    /\ response.outcome = "send_failed"
    /\ LastIsAuthPost
    /\ Failed("AuthenticationError")

\* the last request sent is a GET of the walk that a redirect answered
RedirectAnswered ==
    /\ requests # <<>>
    /\ requests[Len(requests)].method = "GET"
    /\ response.outcome = "response"
    /\ IsRedirection(response.status)

\* C11 as stated: a redirect answer to a GET of the walk without Location
\* makes build() return RedirectionError (no target), one whose Location is
\* no text RedirectionError (not decodable), one whose Location is no URL
\* UrlParsingError; build() has then returned, without a POST and without a
\* session.
C11_BadRedirectTargetIsError ==
    RedirectAnswered =>
        /\ response.location = None
              => /\ Failed("RedirectionError")
                 /\ result.detail = "No redirect URL provided in HTTP redirect headers."
        /\ response.location = Some(Opaque)
              => /\ Failed("RedirectionError")
                 /\ result.detail = "Failed to decode redirect URL."
        /\ response.location = Some(Junk) => Failed("UrlParsingError")

\* C12: the form of the credentials POST has openid.mode; its value is the
\* one of the latest hop URL that carries openid.mode, and "checkid_setup"
\* when no hop URL carries it.
C12_ModeFromChainOrDefault ==
    AuthPosted =>
        LET form == requests[AuthIndex].form
            hops == { i \in 1..(AuthIndex - 1) : "openid.mode" \in KeysOf(requests[i].url) }
        IN  /\ "openid.mode" \in DOMAIN form
            /\ form["openid.mode"] =
                  IF hops = {} THEN "checkid_setup"
                  ELSE ValueIn(requests[LatestHop("openid.mode")].url, "openid.mode")

\* a hop URL carried openid.mode=id_res and the form has it
C12_Witness ==
    /\ AuthPosted
    /\ \E i \in 1..(AuthIndex - 1) :
          /\ "openid.mode" \in KeysOf(requests[i].url)
          /\ ValueIn(requests[i].url, "openid.mode") = "id_res"
    /\ requests[AuthIndex].form["openid.mode"] = "id_res"

\* C13: the form of the credentials POST has the caller's username and
\* password, auth_module = fedoauth.auth.fas.Auth_FAS and auth_flow = fedora,
\* whatever the hop URLs carried under these names.
C13_CredentialsOverrideChain ==
    AuthPosted =>
        LET form == requests[AuthIndex].form
        IN  /\ { "username", "password", "auth_module", "auth_flow" } \subseteq DOMAIN form
            /\ form["username"] = Username
            /\ form["password"] = Password
            /\ form["auth_module"] = "fedoauth.auth.fas.Auth_FAS"
            /\ form["auth_flow"] = "fedora"

\* a hop URL carried username=mallory and the form has the caller's name
C13_Witness ==
    /\ AuthPosted
    /\ \E i \in 1..(AuthIndex - 1) :
          /\ "username" \in KeysOf(requests[i].url)
          /\ ValueIn(requests[i].url, "username") = "mallory"
    /\ requests[AuthIndex].form["username"] = Username

\* the lines write_cached's errors print
SaveErrors ==
    { "Unable to determine cache directory.", "Failed to write cookie cache to disk" }

\* build() has called write_cached, which returned an error
SaveFailed ==
    /\ pc = "done"
    /\ saves = 1
    /\ result.kind # "Killed"
    /\ stdout # <<>>
    /\ stdout[Len(stdout)] \in SaveErrors

\* C14: when the return_to POST was answered 2xx or 3xx and the save of the
\* cache fails, build() returns Ok with the session of the login and the
\* provider's parameters; no build() returns a cookie cache error.
C14_SaveFailureIsSwallowed ==
    /\ result.error # "CookieCacheError"
    /\ SaveFailed =>
          /\ LastIsReturnPost
          /\ (response.status \div 100) \in {2, 3}
          /\ result.kind = "Ok"
          /\ result.source = "login"
          /\ result.params = Some(Unwrap(openid_auth).response)

\* a write that failed after the truncation, and a session all the same
C14_Witness ==
    /\ SaveFailed
    /\ disk.kind = "corrupt"
    /\ disk0.kind = "cache"
    /\ result.kind = "Ok"
    /\ result.params # None

\* C15: when the cache file cannot be loaded (no file, unreadable, corrupt,
\* no cache directory), build() returns no session from the cache and no
\* cookie cache error; it enters the network login exactly as without a
\* file: empty cache, empty accumulator, first GET to the login URL.
C15_LoadFailureFallsBack ==
    (pc # "idle" /\ disk0.kind # "cache") =>
        /\ result.source # "cache"
        /\ result.error # "CookieCacheError"
        /\ requests = <<>> =>
              /\ pc = "get"
              /\ result = NoResult
              /\ url = login_url
              /\ state = <<>>
              /\ cookie_cache = CookieCacheNew(login_url)
        /\ requests # <<>> => requests[1] = Request("GET", login_url, <<>>)
        /\ stdout # <<>>

\* a corrupt file, and a build that ends with the session of a live login
C15_Witness ==
    /\ pc = "done"
    /\ disk0.kind = "corrupt"
    /\ result.kind = "Ok"
    /\ result.source = "login"
    /\ LiveLoginRequests

\* C16: a loaded cache for the requested URL, with cookies that make Cookie
\* headers, is taken as fresh (build() returns its session) exactly when no
\* entry has an expiry at or before the current time; entries without
\* expiry do not count.
C16_FreshIffNoEntryExpired ==
    (pc = "done" /\ disk0.kind = "cache" /\ Stored(disk0).login_url = login_url
                 /\ Renderable(Stored(disk0)))
        => (result.source = "cache" <=> Fresh(Stored(disk0), now))

\* the only expiring entry expires at the current time: not fresh
C16_Witness ==
    /\ pc = "done"
    /\ disk0.kind = "cache"
    /\ Stored(disk0).login_url = login_url
    /\ Stored(disk0).cookies # <<>>
    /\ \A i \in 1..Len(Stored(disk0).cookies) :
          Stored(disk0).cookies[i].expires = Some(now)
    /\ result.source # "cache"
    /\ requests # <<>>

C18_InterruptedSaveKeepsSnapshot ==
    result.kind = "Killed" =>
        disk \in { from_cached(disk0, TRUE).disk, from_cached(disk0, FALSE).disk,
                   CacheFile(to_string_pretty(cookie_cache)) }

\* C19 as stated: the cache never holds two entries with the same name.
C19_OneEntryPerName ==
    \A i, j \in 1..Len(cookie_cache.cookies) :
        cookie_cache.cookies[i].name = cookie_cache.cookies[j].name => i = j

\* C20 as stated: when build() returns the session of a live login, the
\* cache holds every cookie that an answer of this login has set.
C20_CacheHoldsEveryCookie ==
    (pc = "done" /\ result.kind = "Ok" /\ result.source = "login")
        => received \subseteq Pairs(cookie_cache.cookies)

\* C22 (as stated): the client inside every Session that build returns, from
\* the cache as well as from a live login, follows redirects automatically.
\* (That the client of the login phase follows none is how WalkGet, PostAuth
\* and PostReturn come to see the redirect answers at all.)
C22_SessionFollowsRedirects ==
    (pc = "done" /\ result.kind = "Ok") => result.redirect = "follow"

\* C24: the session build returns carries OpenID parameters exactly when the
\* build performed a live login (both POSTs were sent), and carries none
\* exactly when it was made from the reused cache (no request was sent).
C24_ParamsExactlyAfterLiveLogin ==
    (pc = "done" /\ result.kind = "Ok") =>
        /\ result.params # None <=> LastIsReturnPost
        /\ result.params = None <=> requests = <<>>
        /\ result.params # None => result.params = Some(Unwrap(openid_auth).response)

\* a live login has returned its session with the parameters
C24_Witness ==
    /\ pc = "done"
    /\ result.kind = "Ok"
    /\ LastIsReturnPost
    /\ result.params # None

\* the requests of one build, in their order: GETs, then at most one POST to
\* the authentication endpoint, then at most one POST to return_to
RequestsInOrder ==
    \E g \in 0..Len(requests) :
        /\ \A i \in 1..g : requests[i].method = "GET"
        /\ \A i \in (g + 1)..Len(requests) : requests[i].method = "POST"
        /\ Len(requests) <= g + 2
        /\ Len(requests) > g => g >= 1 /\ requests[g + 1].url = AuthUrl
        /\ Len(requests) = g + 2 =>
              return_url # None /\ requests[g + 2].url = Unwrap(return_url)

\* a step of build() sends at most one request, after the answer to the one
\* before, and none once build() has a result or a request was not answered
OneRequestAtATime ==
    \/ requests' = requests
    \/ requests' = <<>>
    \/ /\ \E x \in { requests'[Len(requests')] } : requests' = Append(requests, x)
       /\ result.kind = "none"
       /\ response.outcome \in { "none", "response" }

\* C28: the requests of a build with a live login go out one after another:
\* one or more GETs, then one POST to the authentication endpoint, then at
\* most one POST to return_to; no GET follows a POST, nothing is sent once a
\* step has failed, and no request is sent again.
C28_RequestsStrictlySequential ==
    [](RequestsInOrder) /\ [][OneRequestAtATime]_vars

\* two GETs and both POSTs have gone out
C28_Witness ==
    /\ Len(requests) = 4
    /\ requests[2].method = "GET"
    /\ LastIsReturnPost
    /\ pc = "done"

\* C29 (as stated): when a GET of the walk is answered with something that is
\* no redirect, the walk ends there and build() goes on to the credentials
\* POST.
C29_WalkEndsInCredentialsPost ==
    ( /\ requests # <<>>
      /\ requests[Len(requests)].method = "GET"
      /\ response.outcome = "response"
      /\ ~IsRedirection(response.status) )
        => pc = "post_auth"

\* C30: build attempts to save the cache exactly when caching is enabled and
\* the return_to POST was answered 2xx or 3xx: never when build ends with an
\* error before that answer, never when the cache was reused, and once only.
C30_SaveExactlyAfterAuthenticated ==
    /\ saves <= 1
    /\ saves = 1 => pc = "done"
    /\ pc = "done" =>
          ( saves = 1 <=>
              /\ cache_cookies
              /\ LastIsReturnPost
              /\ response.outcome = "response"
              /\ 200 <= response.status /\ response.status <= 399 )

\* the return_to POST was answered with a redirect and the cache was saved
C30_Witness ==
    /\ pc = "done"
    /\ saves = 1
    /\ result.kind = "Ok"
    /\ response.status = 302
    /\ disk_saved

\* C31 (as stated): a build that makes no save leaves the cache file as it
\* found it: there exactly when it was there before, with the same content.
C31_OnlyTheSaveChangesTheFile ==
    (pc = "done" /\ saves = 0) => disk = disk0

\* this build found the cache file as a successful save of an earlier build
\* left it, stored under the login URL now requested, with no cookie at its
\* expiry yet
FoundSavedFreshCache ==
    /\ pc # "idle"
    /\ disk_saved
    /\ saves = 0
    /\ disk0.kind = "cache"
    /\ Stored(disk0).login_url = login_url
    /\ Fresh(Stored(disk0), now)

\* C33: a build that follows a live login whose save succeeded, asks for the
\* same login URL, and comes before any stored cookie expires and with no
\* other writer of the file in between, takes the cache-hit path: no request,
\* a session without OpenID parameters.  (And the save of a live login stores
\* the cache under that login's URL.)
C33_SavedCacheIsReusedByNextBuild ==
    /\ FoundSavedFreshCache => (pc = "done" /\ CacheHit)
    /\ (pc = "done" /\ saves = 1 /\ result.kind = "Ok" /\ ~SaveFailed) =>
          (disk_saved /\ disk.kind = "cache" /\ Stored(disk).login_url = login_url)

\* a cache with a cookie, saved by a login at the second login URL, was
\* reused by a later build
C33_Witness ==
    /\ FoundSavedFreshCache
    /\ login_url = LoginY
    /\ Stored(disk0).cookies # <<>>
    /\ pc = "done"
    /\ CacheHit

\* C34 (as stated): build() returns a session from the cache only when the
\* cache it loaded holds at least one cookie.
C34_CacheHitNeedsACookie ==
    (pc = "done" /\ CacheHit) =>
        (disk0.kind = "cache" /\ Stored(disk0).cookies # <<>>)

\* the host of a URL
HostOf(u) ==
    CASE u.base = "https://bodhi/login" -> "bodhi"
      [] u.base = "https://koji/login"  -> "koji"
      [] u.base = "https://id/openid"   -> "id"
      [] OTHER                          -> ""

\* the hosts whose answers ingest_cookies sees in a login at login URL l: the
\* walk starts at l and goes on to the URLs of the redirects
WalkHosts(l) == { HostOf(l) } \cup { HostOf(u) : u \in Urls }

\* hosts a caller sends requests to through the session
SessionHosts == { "bodhi", "koji", "id", "elsewhere" }

\* C35 (as stated): the session made from the cache sends a restored cookie
\* only to hosts in the scope under which the cookie was received, which is
\* one of the hosts of the login's walk; to any other host it sends none.
C35_RestoredCookiesKeepTheirScope ==
    (pc = "done" /\ CacheHit) =>
        \A host \in SessionHosts \ WalkHosts(login_url) :
            SessionRequestHeaders(result, host) = <<>>

\* what the caller gave build() to log in with
Credentials == { Username, Password }

\* no key and no value of the query of u is a credential
QueryHoldsNoCredential(u) ==
    \A i \in 1..Len(u.query) :
        u.query[i][1] \notin Credentials /\ u.query[i][2] \notin Credentials

\* no cookie of the cache, and not its login URL, holds a credential
CacheHoldsNoCredential(cache) ==
    /\ QueryHoldsNoCredential(cache.login_url)
    /\ \A i \in 1..Len(cache.cookies) :
          /\ cache.cookies[i].name \notin Credentials
          /\ cache.cookies[i].value \notin Credentials

\* C36: username and password go out in one request of a build only, the
\* credentials POST to the authentication endpoint: no GET carries them, in
\* its URL or in a body; the return_to POST carries the provider's OpenID
\* parameters and nothing else; the cache on disk holds neither.
C36_CredentialsOnlyInCredentialsPost ==
    /\ \A i \in 1..Len(requests) :
          /\ QueryHoldsNoCredential(requests[i].url)
          /\ requests[i].method = "GET" => requests[i].form = <<>>
          /\ (requests[i].method = "POST" /\ i = AuthIndex) =>
                /\ requests[i].url = AuthUrl
                /\ requests[i].form["username"] = Username
                /\ requests[i].form["password"] = Password
          /\ (requests[i].method = "POST" /\ i # AuthIndex) =>
                /\ i = AuthIndex + 1
                /\ DOMAIN requests[i].form = DOMAIN Unwrap(openid_auth).response
                /\ requests[i].form = Unwrap(openid_auth).response
    /\ disk.kind = "cache" => CacheHoldsNoCredential(Stored(disk))

\* a login with a GET to a URL with a query, both POSTs, and a cache with a
\* cookie saved to disk
C36_Witness ==
    /\ pc = "done"
    /\ LastIsReturnPost
    /\ requests[1].url.query # <<>>
    /\ saves = 1
    /\ disk_saved
    /\ disk.kind = "cache"
    /\ Stored(disk).cookies # <<>>
    /\ Stored(disk).login_url = login_url

----------------------------------------------------------------------------
(* Claims about the CachingJar, under JarSpec *)

\* the entries of `st` in the scope of a request to `host`: stored under that
\* host and not expired
InScope(st, host) ==
    { k \in DOMAIN st :
        /\ k[1] = host
        /\ st[k].expires = None \/ Unwrap(st[k].expires) > now }

\* the entry under key k can stand in a header value
Renders(st, k) == k[2] \notin ControlCharTexts /\ st[k].value \notin ControlCharTexts

\* the texts "name=value; name=value" of the entries under `keys`, in any order
JoinedTexts(st, keys) ==
    { Join([i \in 1..Len(o) |-> o[i][2] \o "=" \o st[o[i]].value], "; ") :
        o \in Orderings(keys) }

\* exchange t takes the step in which its lookup returns
LookupReturns(t) == jar_pc[t] = "reading" /\ jar_pc'[t] = "sent"

Ingested(st, t) ==
    LET parsed == ParsedCookies(SetCookieHeaders(t))
        keys == { <<jar_dest[t], parsed[i].name>> : i \in 1..Len(parsed) }
        last(k) == CHOOSE i \in 1..Len(parsed) :
                      /\ parsed[i].name = k[2]
                      /\ \A n \in (i + 1)..Len(parsed) : parsed[n].name # k[2]
    IN  [k \in (DOMAIN st) \cup keys |->
            IF k \in keys THEN StoredCookie(parsed[last(k)].value, None) ELSE st[k]]

\* the store after the whole ingestions of the exchanges in `order`
RECURSIVE IngestedAll(_, _)
IngestedAll(st, order) ==
    IF order = <<>> THEN st
    ELSE IngestedAll(Ingested(st, Head(order)), Tail(order))

\* the store the jar was opened with
Opened == IF jar_loaded = None THEN EmptyStore ELSE OpenedStore(Unwrap(jar_loaded))

\* every exchange has made its lookup and its ingestion
JarAllDone == jar_loaded # None /\ \A t \in Threads : jar_pc[t] = "done"

\* while no ingestion is under way the store is that of the finished
\* ingestions, in the order in which they finished: none of them is lost
NoLostIngestion ==
    lock.writers = {} => store = IngestedAll(Opened, jar_order)

\* a lookup holds the store while no ingestion is under way
LookupsSeeWholeIngestions ==
    /\ Cardinality(lock.writers) <= 1
    /\ lock.readers # {} => lock.writers = {}
    /\ \A t \in Threads : jar_pc[t] = "reading" <=> t \in lock.readers

\* C23: under any interleaving of the lookups and ingestions of concurrent
\* exchanges on one jar, no ingested cookie is lost (the store is that of all
\* finished ingestions, one after another), every lookup sees the store of a
\* whole number of ingestions, some exchange can always take a step until all
\* are done, and all of them get done.
C23_NoLostIngestionNoDeadlock ==
    /\ [](NoLostIngestion /\ LookupsSeeWholeIngestions)
    /\ [](JarAllDone \/ ENABLED JarNext)
    /\ <>JarAllDone

\* all exchanges went to one host and are done, and a lookup saw cookies of
\* another exchange
C23_Witness ==
    /\ JarAllDone
    /\ Len(jar_order) = MaxRequests
    /\ \A t \in Threads : jar_dest[t] = "bodhi"
    /\ \E t \in Threads : jar_seen[t].header # None
    /\ store = IngestedAll(Opened, jar_order)

\* a cookie of the store `st` has expired
HasExpired(st) ==
    \E k \in DOMAIN st : st[k].expires # None /\ Unwrap(st[k].expires) <= now

\* C25: loading a well-formed snapshot that holds an expired entry does not
\* fail: the load returns the jar, and either reports it as not fresh or has
\* left the expired entries out.
C25_ExpiredEntriesLoad ==
    ( /\ jar_loaded # None
      /\ jar_disk.kind = "store"
      /\ HasExpired(jar_disk.store) )
        => /\ Unwrap(jar_loaded).ok
           /\ Unwrap(jar_loaded).error = ""
           /\ Unwrap(jar_loaded).state = "Expired" \/ ~HasExpired(Unwrap(jar_loaded).store)

\* a snapshot with an expired entry was loaded, and the jar in use is empty
C25_Witness ==
    /\ jar_loaded # None
    /\ jar_disk.kind = "store"
    /\ HasExpired(jar_disk.store)
    /\ Unwrap(jar_loaded).state = "Expired"
    /\ \E t \in Threads : jar_seen[t] = Returned(None)

\* C26 (as stated): the load fails with DoesNotExist exactly when the file is
\* absent, with SerializationError when the file can be read and its content
\* does not deserialize, and with FileSystemError for every other fault, the
\* undeterminable location among them.
C26_LoadClassifiesFailures ==
    jar_loaded # None =>
        /\ Unwrap(jar_loaded).error = "DoesNotExist" <=> jar_disk.kind = "absent"
        /\ jar_disk.kind \in { "corrupt", "not_utf8" } =>
              Unwrap(jar_loaded).error = "SerializationError"
        /\ jar_disk.kind \in { "nohome", "unreadable" } =>
              Unwrap(jar_loaded).error = "FileSystemError"
        /\ jar_disk.kind = "store" => Unwrap(jar_loaded).ok

\* the snapshot on disk is not reused: it cannot be loaded, or it holds an
\* expired cookie
SnapshotDiscarded ==
    jar_loaded # None /\ (jar_disk.kind # "store" \/ HasExpired(jar_disk.store))

\* the entry under key k holds a cookie that an exchange of this run ingested
IngestedInThisRun(k) ==
    \E t \in Threads :
        /\ jar_pc[t] \in { "writing", "done" }
        /\ k[1] = jar_dest[t]
        /\ \E i \in 1..Len(SetCookieHeaders(t)) :
              /\ SetCookieHeaders(t)[i].kind = "cookie"
              /\ SetCookieHeaders(t)[i].name = k[2]
              /\ SetCookieHeaders(t)[i].value = store[k].value

\* the stores that ingestions of other exchanges than t build up from nothing
StoresOfOthers(t) ==
    { IngestedAll(EmptyStore, o) :
        o \in UNION { Orderings(S) : S \in SUBSET (Threads \ {t}) } }

\* the Cookie headers made of nothing but cookies ingested in this run
HeadersOfThisRun(t) ==
    { None } \cup
    UNION { { Some(text) : text \in JoinedTexts(st, InScope(st, jar_dest[t])) } :
              st \in { x \in StoresOfOthers(t) : InScope(x, jar_dest[t]) # {} } }

----------------------------------------------------------------------------
(* Claims about OpenIDClient, under ClientSpec *)

\* C27 (as stated): authenticated() is true only after a login in which the
\* OpenID service accepted the credentials.
C27_AuthenticatedOnlyAfterAcceptance ==
    authenticated => accepted


====
